---------------------------- MODULE Spec2Model ----------------------------
(***************************************************************************)
(* FuzzManager: the symptom constructors of FTB/Signatures/Symptom.py and  *)
(* the StackFramesSymptom recognizer (_match) and generalizer (diff,       *)
(* _diff), and the signature views of server/crashmanager/views.py over    *)
(* the Bucket and CrashEntry tables.                                       *)
(*                                                                         *)
(* Strings are sequences of one-character strings, so that the substring   *)
(* test of StringMatch is computed and not assumed.  A Python list that is *)
(* passed by reference is modelled by the contents of the caller's list    *)
(* object before and after the call, so that a callee that edits its       *)
(* argument in place shows in the caller's state.                          *)
(***************************************************************************)
EXTENDS Integers, Sequences, FiniteSets, TLC

VARIABLES
    json,       \* the decoded JSON object the caller was given
    crash,      \* the CrashInfo the caller was given
    symptom,    \* the symptom the factory returned, NoSymptom before and if it raised
    ret,        \* what the last call returned or raised
    buckets,    \* the Bucket table: pk -> row
    entries,    \* the CrashEntry table: pk -> row
    autoPk      \* the last primary key each table handed out

vars == <<json, crash, symptom, ret, buckets, entries, autoPk>>

\* what the symptom calls work on
symptomVars == <<json, crash, symptom>>

\* the database of the server
dbVars == <<buckets, entries, autoPk>>

---------------------------------------------------------------------------
(* Bounds of the model *)

\* longest functionNames array given to the factory
MaxNames == 3

\* longest backtrace of a CrashInfo
MaxFrames == 4

\* most Bucket rows ever created
MaxBuckets == 2

\* most CrashEntry rows ever created
MaxEntries == 2

---------------------------------------------------------------------------
(* Strings *)

Q1 == <<"?">>

Q3 == <<"?", "?", "?">>

\* function names that occur in signatures
NameStrings == {<<"a">>, <<"b">>}

\* function names that occur in backtraces
FrameStrings == {<<"a">>, <<"b">>, <<"a", "b">>}

\* s[i:j] (Python slice of a string, 0-based, j exclusive)
Substr(s, i, j) == SubSeq(s, i + 1, j)

\* Python: p in s
Contains(p, s) == \E i \in 0..(Len(s) - Len(p)) : Substr(s, i, i + Len(p)) = p

SeqsUpTo(S, n) == UNION {[1..k -> S] : k \in 0..n}

---------------------------------------------------------------------------
(* Decoded JSON values *)

JAbsent == [t |-> "absent"]

JStr(s) == [t |-> "str", s |-> s]

JInt(n) == [t |-> "int", n |-> n]

JArr(a) == [t |-> "arr", a |-> a]

\* a mapping with the keys of a StringMatch encoding
JMap(value, matchType) == [t |-> "map", value |-> value, matchType |-> matchType]

\* a call that raised
Raise(e) == [ok |-> FALSE, err |-> e]

\* a call that returned v
Return(v) == [ok |-> TRUE, val |-> v]

\* JSONHelper.getArrayChecked(obj, key, mandatory) applied to the value v = obj[key]
getArrayChecked(v, mandatory) ==
    IF v = JAbsent
    THEN IF mandatory THEN Raise("MissingField") ELSE Return(JAbsent)
    ELSE IF v.t # "arr" THEN Raise("BadType") ELSE Return(v)

\* JSONHelper.getNumberOrStringChecked(obj, key, mandatory) applied to v = obj[key]
getNumberOrStringChecked(v, mandatory) ==
    IF v = JAbsent
    THEN IF mandatory THEN Raise("MissingField") ELSE Return(JAbsent)
    ELSE IF v.t \notin {"int", "str"} THEN Raise("BadType") ELSE Return(v)

---------------------------------------------------------------------------
(* Matchers *)

ContainsWord == <<"c", "o", "n", "t", "a", "i", "n", "s">>

PcreWord == <<"p", "c", "r", "e">>

\* StringMatch(obj): a bare string or a mapping {value, matchType?}
StringMatch(v) ==
    IF v.t = "str" THEN Return([value |-> v.s, isPCRE |-> FALSE])
    ELSE IF v.t = "map"
    THEN IF v.value = JAbsent THEN Raise("MissingField")
         ELSE IF v.value.t # "str" THEN Raise("BadType")
         ELSE IF v.matchType = JAbsent \/ v.matchType = JStr(ContainsWord)
         THEN Return([value |-> v.value.s, isPCRE |-> FALSE])
         ELSE IF v.matchType = JStr(PcreWord)
         THEN Return([value |-> v.value.s, isPCRE |-> TRUE])
         ELSE Raise("BadMatchType")
    ELSE Raise("BadType")

\* StringMatch.matches(val), literal matcher: value in val
StringMatch_matches(m, val) == Contains(m.value, val)

\* str(StringMatch)
str(m) == m.value

\* repr(StringMatch)
repr(m) == m.value

\* NumberMatch(obj) for an integer or a string "N" of one decimal digit; the range
\* forms of the string grammar are not among the model's inputs
NumberMatch(v) ==
    LET digits == <<"0", "1", "2", "3", "4", "5", "6", "7", "8", "9">>
    IN  IF v.t = "int" THEN Return([lo |-> v.n, hi |-> v.n])
        ELSE IF Len(v.s) = 1 /\ \E d \in 1..10 : digits[d] = v.s[1]
        THEN LET n == (CHOOSE d \in 1..10 : digits[d] = v.s[1]) - 1
             IN  Return([lo |-> n, hi |-> n])
        ELSE Raise("BadNumberSpec")

---------------------------------------------------------------------------
(* Python values and list references *)

PyTrue == "True"

PyFalse == "False"

\* the value of a call that falls off the end of the function body
PyNone == "None"

\* an optional value: None is the empty sequence, a value x is <<x>>
None == <<>>

Some(x) == <<x>>

\* A local name bound to a list: items are the list's contents, own tells whether
\* the name still refers to the list object the caller passed in.
Arg(l) == [items |-> l, own |-> TRUE]

\* l[1:] builds a new list; the name is rebound to it
Slice1(v) == [items |-> Tail(v.items), own |-> FALSE]

\* the contents of the caller's list when the callee returns: l0 at the call,
\* v the callee's name for it
After(l0, v) == IF v.own THEN v.items ELSE l0

---------------------------------------------------------------------------
(* StackFramesSymptom._match *)

IsWildcard(m) == str(m) = Q1 \/ str(m) = Q3

\* the while loop of _match over the leading non-wildcard names
RECURSIVE MatchLeading(_, _)
MatchLeading(ps, pf) ==
    IF pf.items # <<>> /\ ps.items # <<>> /\ str(Head(pf.items)) # Q1 /\ str(Head(pf.items)) # Q3
    THEN IF ~StringMatch_matches(Head(pf.items), Head(ps.items))
         THEN [returned |-> TRUE, ps |-> ps, pf |-> pf]
         ELSE MatchLeading(Slice1(ps), Slice1(pf))
    ELSE [returned |-> FALSE, ps |-> ps, pf |-> pf]

RECURSIVE _match(_, _)

\* SkipWildcard with the zero-frame attempt made for ??? alone
SkipTripleOnly(ps, pf) ==
    IF str(Head(pf.items)) = Q1
    THEN [ret |-> PyFalse, stack |-> ps.items, names |-> Tail(pf.items)]
    ELSE _match(ps.items, Tail(pf.items))

\* the first attempt at a wildcard: the rest of the names against the same stack
SkipWildcard(ps, pf) == _match(ps.items, Tail(pf.items))

\* ConsumeFrame with ??? consumed together with its first frame
ConsumeFrameDropsTriple(ps, pf) ==
    [r |-> _match(Tail(ps.items), Tail(pf.items)), kept |-> FALSE]

\* the names a wildcard leaves to match once it has consumed one frame:
\* ? is consumed with the frame, ??? is kept
ConsumeFrame(ps, pf) ==
    IF str(Head(pf.items)) = Q1
    THEN [r |-> _match(Tail(ps.items), Tail(pf.items)), kept |-> FALSE]
    ELSE [r |-> _match(Tail(ps.items), pf.items), kept |-> TRUE]

\* _match(partialStack, partialFunctionNames): ret is the returned value, stack and
\* names are the contents of the two argument lists at return
_match(partialStack, partialFunctionNames) ==
    LET w == MatchLeading(Arg(partialStack), Arg(partialFunctionNames))
        Out(r, ps, pf) == [ret |-> r, stack |-> After(partialStack, ps),
                           names |-> After(partialFunctionNames, pf)]
    IN  IF w.returned THEN Out(PyFalse, w.ps, w.pf)
        ELSE IF w.pf.items = <<>> THEN Out(PyTrue, w.ps, w.pf)
        ELSE IF IsWildcard(Head(w.pf.items))
        THEN LET r1 == SkipWildcard(w.ps, w.pf)
                 ps1 == [w.ps EXCEPT !.items = r1.stack]
             IN  IF r1.ret = PyTrue THEN Out(PyTrue, ps1, w.pf)
                 ELSE IF ps1.items = <<>> THEN Out(PyFalse, ps1, w.pf)
                 ELSE LET c == ConsumeFrame(ps1, w.pf)
                          pf1 == IF c.kept THEN [w.pf EXCEPT !.items = c.r.names] ELSE w.pf
                      IN  Out(c.r.ret, ps1, pf1)
        ELSE IF w.ps.items = <<>> THEN Out(PyFalse, w.ps, w.pf)
        ELSE Out(PyNone, w.ps, w.pf)

---------------------------------------------------------------------------
(* StackFramesSymptom._diff *)

\* list.insert(idx, x) for 0 <= idx <= len(l)
Insert(l, idx, x) == SubSeq(l, 1, idx) \o <<x>> \o SubSeq(l, idx + 1, Len(l))

\* list.pop(idx) for 0 <= idx < len(l): the list that is left
Pop(l, idx) == SubSeq(l, 1, idx) \o SubSeq(l, idx + 2, Len(l))

\* l[idx] = x for 0 <= idx < len(l)
Store(l, idx, x) == [l EXCEPT ![idx + 1] = x]

\* singleWildcardMatch = StringMatch("?")
singleWildcardMatch == StringMatch(JStr(Q1)).val

\* NewSignatureGuess as "newSignatureGuess = signatureGuess": the caller's list
NewSignatureGuessAliased(signatureGuess) == [items |-> signatureGuess, own |-> TRUE]

\* newSignatureGuess = []; newSignatureGuess.extend(signatureGuess): a list of its own
NewSignatureGuess(signatureGuess) == [items |-> signatureGuess, own |-> FALSE]

\* RangeStop one too far: range(startIdx, len(newSignatureGuess) + 1)
RangeStopPastEnd(newSignatureGuess) == Len(newSignatureGuess) + 1

\* RangeStop one short: range(startIdx, len(newSignatureGuess) - 1)
RangeStopShort(newSignatureGuess) == Len(newSignatureGuess) - 1

\* the end of range(startIdx, len(newSignatureGuess)), fixed when the loop starts
RangeStop(newSignatureGuess) == Len(newSignatureGuess)

\* MatchedGuess as "return (depth, signatureGuess)": the list without the edit
MatchedGuessUnedited(signatureGuess, newSignatureGuess) == signatureGuess

\* the list returned with the depth when an edit matches
MatchedGuess(signatureGuess, newSignatureGuess) == newSignatureGuess

\* IsBetter with <= for <: a later result of equal depth replaces the best
IsBetterOrEqual(newBestDepth, bestDepth) ==
    newBestDepth # None /\ (bestDepth = None \/ newBestDepth[1] <= bestDepth[1])

\* newBestDepth != None and (bestDepth == None or newBestDepth < bestDepth)
IsBetter(newBestDepth, bestDepth) ==
    newBestDepth # None /\ (bestDepth = None \/ newBestDepth[1] < bestDepth[1])

\* what _diff hands back: err is "" unless an exception left the call, depth and
\* guess are the returned pair, stack and sig the contents of its two argument
\* lists at return (sig0 the contents of signatureGuess at the call, new the
\* callee's newSignatureGuess)
DiffOut(err, depth, guess, stack, sig0, new) ==
    [err |-> err, depth |-> depth, guess |-> guess, stack |-> stack,
     sig |-> After(sig0, new)]

RECURSIVE _diff(_, _, _, _, _)
RECURSIVE DiffLoop(_, _, _, _, _, _, _, _)

\* the recursive call under "if depth < maxDepth", or no call at all
Deeper(stack, newSignatureGuess, idx, depth, maxDepth) ==
    IF depth < maxDepth
    THEN _diff(stack, newSignatureGuess, idx, depth + 1, maxDepth)
    ELSE [err |-> "", depth |-> None, guess |-> None, stack |-> stack,
          sig |-> newSignatureGuess]

\* (bestDepth, bestGuess) after the recursive call d returned
Best(d, best) == IF IsBetter(d.depth, best[1]) THEN <<d.depth, d.guess>> ELSE best

\* an exception leaves _diff
DiffRaise(err, stack, sig0, new, items) ==
    DiffOut(err, None, None, stack, sig0, [new EXCEPT !.items = items])

\* an edit matched: return (depth, newSignatureGuess)
DiffFound(sig0, new, m, depth) ==
    DiffOut("", Some(depth), Some(MatchedGuess(sig0, m.names)), m.stack, sig0,
            [new EXCEPT !.items = m.names])

\* newSignatureGuess[idx] = origMatch, and on to the next idx; d is what the
\* recursive call on the replaced list returned
AfterReplaceDeeper(sig0, new, origMatch, d, idx, stop, depth, maxDepth, best) ==
    IF d.err # "" THEN DiffRaise(d.err, d.stack, sig0, new, d.sig)
    ELSE IF idx >= Len(d.sig) THEN DiffRaise("IndexError", d.stack, sig0, new, d.sig)
    ELSE DiffLoop(d.stack, sig0, [new EXCEPT !.items = Store(d.sig, idx, origMatch)],
                  idx + 1, stop, depth, maxDepth, Best(d, best))

\* m is what _match returned for the list with newSignatureGuess[idx] replaced
AfterReplaceMatch(sig0, new, origMatch, m, idx, stop, depth, maxDepth, best) ==
    IF m.ret = PyTrue THEN DiffFound(sig0, new, m, depth)
    ELSE AfterReplaceDeeper(sig0, new, origMatch,
                            Deeper(m.stack, m.names, idx, depth, maxDepth),
                            idx, stop, depth, maxDepth, best)

\* "Now repeat the same with replacing instead of adding unless the match at idx is
\* a wildcard itself"
TryReplace(stack, sig0, new, idx, stop, depth, maxDepth, best) ==
    IF idx >= Len(new.items) THEN DiffRaise("IndexError", stack, sig0, new, new.items)
    ELSE IF IsWildcard(new.items[idx + 1])
    THEN DiffLoop(stack, sig0, new, idx + 1, stop, depth, maxDepth, best)
    ELSE AfterReplaceMatch(sig0, new, new.items[idx + 1],
                           _match(stack, Store(new.items, idx, singleWildcardMatch)),
                           idx, stop, depth, maxDepth, best)

\* newSignatureGuess.pop(idx); d is what the recursive call on the list with the
\* wildcard inserted returned
AfterInsertDeeper(sig0, new, d, idx, stop, depth, maxDepth, best) ==
    IF d.err # "" THEN DiffRaise(d.err, d.stack, sig0, new, d.sig)
    ELSE IF idx >= Len(d.sig) THEN DiffRaise("IndexError", d.stack, sig0, new, d.sig)
    ELSE TryReplace(d.stack, sig0, [new EXCEPT !.items = Pop(d.sig, idx)],
                    idx, stop, depth, maxDepth, Best(d, best))

\* m is what _match returned for the list with the wildcard inserted at idx
AfterInsertMatch(sig0, new, m, idx, stop, depth, maxDepth, best) ==
    IF m.ret = PyTrue THEN DiffFound(sig0, new, m, depth)
    ELSE AfterInsertDeeper(sig0, new, Deeper(m.stack, m.names, idx, depth, maxDepth),
                           idx, stop, depth, maxDepth, best)

\* the for loop of _diff from index idx on: new is newSignatureGuess, sig0 the
\* contents of signatureGuess at the call, best is (bestDepth, bestGuess)
DiffLoop(stack, sig0, new, idx, stop, depth, maxDepth, best) ==
    IF idx >= stop THEN DiffOut("", best[1], best[2], stack, sig0, new)
    ELSE AfterInsertMatch(sig0, new,
                          _match(stack, Insert(new.items, idx, singleWildcardMatch)),
                          idx, stop, depth, maxDepth, best)

\* _diff(stack, signatureGuess, startIdx, depth, maxDepth)
_diff(stack, signatureGuess, startIdx, depth, maxDepth) ==
    DiffLoop(stack, signatureGuess, NewSignatureGuess(signatureGuess), startIdx,
             RangeStop(signatureGuess), depth, maxDepth, <<None, None>>)

---------------------------------------------------------------------------
(* Symptom constructors *)

TypeStackFrame == <<"s", "t", "a", "c", "k", "F", "r", "a", "m", "e">>

TypeStackFrames == <<"s", "t", "a", "c", "k", "F", "r", "a", "m", "e", "s">>

NoSymptom == [kind |-> "none"]

\* an object identity no live object has
FreshOid(live) == CHOOSE n \in 1..(Cardinality(live) + 1) : n \notin live

\* the first exception of "for fn in rawFunctionNames: ...append(StringMatch(fn))",
\* or the list built
AppendAll(rawFunctionNames) ==
    LET ms == [i \in 1..Len(rawFunctionNames) |-> StringMatch(rawFunctionNames[i])]
        bad == {i \in 1..Len(rawFunctionNames) : ~ms[i].ok}
    IN  IF bad # {}
        THEN ms[CHOOSE i \in bad : \A j \in bad : i <= j]
        ELSE Return([i \in 1..Len(rawFunctionNames) |-> ms[i].val])

\* StackFramesSymptom.__init__(obj), the new object having identity oid
StackFramesSymptom(obj, oid) ==
    LET rawFunctionNames == getArrayChecked(obj.functionNames, TRUE)
    IN  IF ~rawFunctionNames.ok THEN rawFunctionNames
        ELSE LET functionNames == AppendAll(rawFunctionNames.val.a)
             IN  IF ~functionNames.ok THEN functionNames
                 ELSE Return([kind |-> "stackFrames", oid |-> oid,
                              functionNames |-> functionNames.val])

\* the accessor that reads "functionName" in StackFrameSymptom.__init__
FunctionNameChecked(v) == getNumberOrStringChecked(v, TRUE)

\* StackFrameSymptom.__init__(obj), the new object having identity oid
StackFrameSymptom(obj, oid) ==
    LET fn == FunctionNameChecked(obj.functionName)
    IN  IF ~fn.ok THEN fn
        ELSE
        LET functionName == StringMatch(fn.val)
        IN  IF ~functionName.ok THEN functionName
            ELSE
            LET raw == getNumberOrStringChecked(obj.frameNumber, FALSE)
            IN  IF ~raw.ok THEN raw
                ELSE
                LET frameNumber == IF raw.val # JAbsent THEN NumberMatch(raw.val)
                                   ELSE NumberMatch(JInt(0))
                IN  IF ~frameNumber.ok THEN frameNumber
                    ELSE Return([kind |-> "stackFrame", oid |-> oid,
                                 functionName |-> functionName.val,
                                 frameNumber |-> frameNumber.val])

\* Symptom.fromJSONObject(obj) for the two kinds modelled; the other five tags are
\* not among the model's inputs
fromJSONObject(obj, oid) ==
    IF obj.type = JAbsent THEN Raise("MissingField")
    ELSE IF obj.type = JStr(TypeStackFrame) THEN StackFrameSymptom(obj, oid)
    ELSE IF obj.type = JStr(TypeStackFrames) THEN StackFramesSymptom(obj, oid)
    ELSE Raise("UnknownSymptomType")

---------------------------------------------------------------------------
(* StackFramesSymptom.matches and StackFramesSymptom.diff *)

\* StackFramesSymptom.matches(crashInfo)
matches(functionNames, backtrace) == _match(backtrace, functionNames)

\* range(1,4), the depths diff tries
FirstDepth == 1

StopDepth == 4

\* RemoveTrailingWildcards that pops '?' alone
RECURSIVE RemoveTrailingSingles(_)
RemoveTrailingSingles(guessedFunctionNames) ==
    IF guessedFunctionNames # <<>> /\ guessedFunctionNames[Len(guessedFunctionNames)] = Q1
    THEN RemoveTrailingSingles(SubSeq(guessedFunctionNames, 1, Len(guessedFunctionNames) - 1))
    ELSE guessedFunctionNames

\* "while guessedFunctionNames and (guessedFunctionNames[-1] == '?' or
\*  guessedFunctionNames[-1] == '???'): guessedFunctionNames.pop()"
RECURSIVE RemoveTrailingWildcards(_)
RemoveTrailingWildcards(guessedFunctionNames) ==
    IF guessedFunctionNames # <<>>
       /\ (guessedFunctionNames[Len(guessedFunctionNames)] = Q1
           \/ guessedFunctionNames[Len(guessedFunctionNames)] = Q3)
    THEN RemoveTrailingWildcards(SubSeq(guessedFunctionNames, 1, Len(guessedFunctionNames) - 1))
    ELSE guessedFunctionNames

\* { "type": "stackFrames", 'functionNames' : guessedFunctionNames }
GuessObject(guessedFunctionNames) ==
    [type |-> JStr(TypeStackFrames),
     functionNames |-> JArr([i \in 1..Len(guessedFunctionNames) |-> JStr(guessedFunctionNames[i])]),
     functionName |-> JAbsent, frameNumber |-> JAbsent]

\* what diff hands back: the pair (depth, sym), err unless "", found the list the
\* search returned, and the contents of self.functionNames and of
\* crashInfo.backtrace at return
DiffResult(err, depth, sym, found, names, stack) ==
    [err |-> err, depth |-> depth, sym |-> sym, found |-> found, names |-> names,
     stack |-> stack]

\* return (bestDepth, StackFramesSymptom({...})), new being what the constructor
\* returned or raised
DiffReturn(d, guessedFunctionNames, new) ==
    IF ~new.ok
    THEN DiffResult(new.err, None, None, Some(guessedFunctionNames), d.sig, d.stack)
    ELSE DiffResult("", d.depth, Some(new.val), Some(guessedFunctionNames), d.sig, d.stack)

\* "if not guessedFunctionNames: return (None, None)", trimmed being the list
\* without its trailing wildcards
DiffTrimmed(d, guessedFunctionNames, trimmed, oid) ==
    IF trimmed = <<>>
    THEN DiffResult("", None, None, Some(guessedFunctionNames), d.sig, d.stack)
    ELSE DiffReturn(d, guessedFunctionNames, StackFramesSymptom(GuessObject(trimmed), oid))

\* guessedFunctionNames = [repr(x) for x in bestGuess]
DiffGuessed(d, guessedFunctionNames, oid) ==
    DiffTrimmed(d, guessedFunctionNames, RemoveTrailingWildcards(guessedFunctionNames), oid)

RECURSIVE DiffDepths(_, _, _, _)

\* d is what _diff returned for maxDepth = depth
AfterSearch(d, depth, oid) ==
    IF d.err # "" THEN DiffResult(d.err, None, None, None, d.sig, d.stack)
    ELSE IF d.depth # None
    THEN DiffGuessed(d, [i \in 1..Len(d.guess[1]) |-> repr(d.guess[1][i])], oid)
    ELSE DiffDepths(d.stack, d.sig, depth + 1, oid)

\* "for depth in range(1,4)" from depth on
DiffDepths(stack, names, depth, oid) ==
    IF depth >= StopDepth THEN DiffResult("", None, None, None, names, stack)
    ELSE AfterSearch(_diff(stack, names, 0, 1, depth), depth, oid)

\* StackFramesSymptom.diff(crashInfo); oid is the identity of the object it creates
diff(functionNames, backtrace, oid) ==
    LET m == matches(functionNames, backtrace)
    IN  IF m.ret = PyTrue THEN DiffResult("", Some(0), None, None, m.names, m.stack)
        ELSE DiffDepths(m.stack, m.names, FirstDepth, oid)

---------------------------------------------------------------------------
(* The state machine: a caller that is given a decoded JSON object and a   *)
(* CrashInfo, builds the symptom and calls matches and diff on it          *)

Wildcards == {Q1, Q3}

\* the functionNames arrays given to the factory
NameArrays == SeqsUpTo({JStr(s) : s \in NameStrings \cup Wildcards}, MaxNames)

\* the JSON objects given to the factory
StackFramesObjects ==
    {[type |-> JStr(TypeStackFrames), functionNames |-> fns, functionName |-> JAbsent,
      frameNumber |-> JAbsent] :
        fns \in {JAbsent, JInt(1)} \cup {JArr(a) : a \in NameArrays}}

StackFrameObjects ==
    {[type |-> JStr(TypeStackFrame), functionNames |-> JAbsent, functionName |-> fn,
      frameNumber |-> n] :
        fn \in {JAbsent, JStr(<<"a">>), JInt(5), JMap(JStr(<<"a">>), JAbsent),
                JMap(JStr(<<"a">>), JStr(PcreWord)), JArr(<<>>)},
        n \in {JAbsent, JInt(1), JStr(<<"2">>), JArr(<<>>)}}

OtherObjects ==
    {[type |-> t, functionNames |-> JArr(<<JStr(<<"a">>)>>), functionName |-> JStr(<<"a">>),
      frameNumber |-> JAbsent] : t \in {JAbsent, JStr(<<"x">>), JInt(1)}}

JSONObjects == StackFramesObjects \cup StackFrameObjects \cup OtherObjects

Backtraces == SeqsUpTo(FrameStrings, MaxFrames)

Init ==
    /\ json \in JSONObjects
    /\ crash \in {[backtrace |-> bt] : bt \in Backtraces}
    /\ symptom = NoSymptom
    /\ ret = [op |-> "init"]
    /\ buckets = <<>>
    /\ entries = <<>>
    /\ autoPk = [bucket |-> 0, entry |-> 0]

\* the caller builds its symptom from the decoded JSON object
FromJSONObject ==
    /\ ret.op = "init"
    /\ LET r == fromJSONObject(json, FreshOid({}))
       IN  /\ symptom' = IF r.ok THEN r.val ELSE NoSymptom
           /\ ret' = [op |-> "new", err |-> IF r.ok THEN "" ELSE r.err]
    /\ UNCHANGED <<json, crash>>
    /\ UNCHANGED dbVars

\* symptom.matches(crash)
Matches ==
    /\ symptom.kind = "stackFrames"
    /\ LET r == matches(symptom.functionNames, crash.backtrace)
       IN  /\ ret' = [op |-> "matches", val |-> r.ret]
           /\ symptom' = [symptom EXCEPT !.functionNames = r.names]
           /\ crash' = [crash EXCEPT !.backtrace = r.stack]
    /\ UNCHANGED json
    /\ UNCHANGED dbVars

\* symptom.diff(crash)
Diff ==
    /\ symptom.kind = "stackFrames"
    /\ LET r == diff(symptom.functionNames, crash.backtrace, FreshOid({symptom.oid}))
       IN  /\ ret' = [op |-> "diff", err |-> r.err, depth |-> r.depth, sym |-> r.sym,
                      found |-> r.found]
           /\ symptom' = [symptom EXCEPT !.functionNames = r.names]
           /\ crash' = [crash EXCEPT !.backtrace = r.stack]
    /\ UNCHANGED json
    /\ UNCHANGED dbVars

Next == FromJSONObject \/ Matches \/ Diff

Spec == Init /\ [][Next]_vars

---------------------------------------------------------------------------
(* server/crashmanager/views.py: the signature views and the CrashEntry    *)
(* REST endpoint over the Bucket and CrashEntry tables.  Each request is   *)
(* handled as a whole; the views that only read (index, signatures,        *)
(* crashes, viewSignature) are left out.                                   *)

\* request.method
Methods == {"GET", "POST", "PUT"}

\* request.POST['signature']
SignatureTexts == {"s1", "s2"}

\* the row a signature form posts
PostedBucket(signature) == [signature |-> signature, shortDescription |-> "d"]

\* f without the keys outside S
Restrict(f, S) == [x \in S |-> f[x]]

\* what a view hands back: the response and the tables when it returns; updated
\* is the number of rows an update() matched
Response(status, bs, es, pks, updated) ==
    [status |-> status, buckets |-> bs, entries |-> es, autoPk |-> pks,
     updated |-> updated]

\* @login_required(login_url='/login/') turned the request away
LoginRequired(bs, es, pks) == Response("login", bs, es, pks, 0)

\* get_object_or_404(Bucket, pk=sigid) finds a row
BucketFound(bs, sigid) == sigid \in DOMAIN bs

\* the rows of CrashEntry.objects.filter(bucket=bucket)
FilterBucket(es, sigid) == {e \in DOMAIN es : es[e].bucket = Some(sigid)}

\* UpdateBucketNone left out: the rows keep their bucket
UpdateSkipped(es, sigid) == es

\* CrashEntry.objects.filter(bucket=bucket).update(bucket=None)
UpdateBucketNone(es, sigid) ==
    [e \in DOMAIN es |-> IF e \in FilterBucket(es, sigid)
                         THEN [es[e] EXCEPT !.bucket = None] ELSE es[e]]

\* the CrashEntry rows bucket.delete() leaves: those that refer to the bucket "would
\* be deleted as well through cascading"
CascadeDelete(es, sigid) == Restrict(es, DOMAIN es \ FilterBucket(es, sigid))

\* deleteSignature(request, sigid)
deleteSignature(user, method, sigid, bs, es, pks) ==
    IF ~user THEN LoginRequired(bs, es, pks)
    ELSE IF ~BucketFound(bs, sigid) THEN Response("404", bs, es, pks, 0)
    ELSE IF method = "POST"
    THEN Response("redirect", Restrict(bs, DOMAIN bs \ {sigid}),
                  CascadeDelete(UpdateBucketNone(es, sigid), sigid), pks,
                  Cardinality(FilterBucket(es, sigid)))
    ELSE IF method = "GET" THEN Response("render", bs, es, pks, 0)
    ELSE Response("SuspiciousOperation", bs, es, pks, 0)

\* newSignature(request); post is None when the form fields are missing, crashid is
\* request.GET['crashid'] or None
newSignature(user, method, post, crashid, bs, es, pks) ==
    IF ~user THEN LoginRequired(bs, es, pks)
    ELSE IF method = "POST"
    THEN IF post = None THEN Response("KeyError", bs, es, pks, 0)
         ELSE LET pk == pks.bucket + 1
              IN  Response("redirect",
                           [x \in DOMAIN bs \cup {pk} |-> IF x = pk THEN post[1] ELSE bs[x]],
                           es, [pks EXCEPT !.bucket = pk], 0)
    ELSE IF method = "GET"
    THEN IF crashid # None /\ crashid[1] \notin DOMAIN es
         THEN Response("404", bs, es, pks, 0)
         ELSE Response("render", bs, es, pks, 0)
    ELSE Response("SuspiciousOperation", bs, es, pks, 0)

\* editSignature(request, sigid) for a sigid that is given
editSignature(user, method, sigid, post, bs, es, pks) ==
    IF ~user THEN LoginRequired(bs, es, pks)
    ELSE IF method \notin {"POST", "GET"} THEN Response("SuspiciousOperation", bs, es, pks, 0)
    ELSE IF ~BucketFound(bs, sigid) THEN Response("404", bs, es, pks, 0)
    ELSE IF method = "GET" THEN Response("render", bs, es, pks, 0)
    ELSE IF post = None THEN Response("KeyError", bs, es, pks, 0)
    ELSE Response("redirect", [bs EXCEPT ![sigid] = post[1]], es, pks, 0)

\* the bucket a CrashEntry row may be given: none, or a Bucket row that exists
BucketChoices(bs) == {None} \cup {Some(b) : b \in DOMAIN bs}

\* CrashEntryViewSet.create
CrashEntryCreate(bucket, bs, es, pks) ==
    LET pk == pks.entry + 1
    IN  Response("created", bs,
                 [x \in DOMAIN es \cup {pk} |-> IF x = pk THEN [bucket |-> bucket] ELSE es[x]],
                 [pks EXCEPT !.entry = pk], 0)

\* CrashEntryViewSet.update
CrashEntryUpdate(pk, bucket, bs, es, pks) ==
    IF pk \notin DOMAIN es THEN Response("404", bs, es, pks, 0)
    ELSE Response("ok", bs, [es EXCEPT ![pk] = [bucket |-> bucket]], pks, 0)

\* CrashEntryViewSet.destroy
CrashEntryDestroy(pk, bs, es, pks) ==
    IF pk \notin DOMAIN es THEN Response("404", bs, es, pks, 0)
    ELSE Response("deleted", bs, Restrict(es, DOMAIN es \ {pk}), pks, 0)

\* the tables and the response after a request
Respond(op, method, sigid, r) ==
    /\ buckets' = r.buckets
    /\ entries' = r.entries
    /\ autoPk' = r.autoPk
    /\ ret' = [op |-> op, method |-> method, sigid |-> sigid, status |-> r.status,
               updated |-> r.updated]

\* an empty database
ServerInit ==
    /\ json = JAbsent
    /\ crash = [backtrace |-> <<>>]
    /\ symptom = NoSymptom
    /\ ret = [op |-> "init"]
    /\ buckets = <<>>
    /\ entries = <<>>
    /\ autoPk = [bucket |-> 0, entry |-> 0]

Posts == {None} \cup {Some(PostedBucket(s)) : s \in SignatureTexts}

NewSignature ==
    \E user \in BOOLEAN, method \in Methods, post \in Posts,
       crashid \in {None} \cup {Some(e) : e \in 1..MaxEntries} :
        /\ autoPk.bucket < MaxBuckets
        /\ Respond("newSignature", method, 0,
                   newSignature(user, method, post, crashid, buckets, entries, autoPk))
        /\ UNCHANGED symptomVars

EditSignature ==
    \E user \in BOOLEAN, method \in Methods, sigid \in 1..MaxBuckets, post \in Posts :
        LET r == editSignature(user, method, sigid, post, buckets, entries, autoPk)
        IN  /\ Respond("editSignature", method, sigid, r)
            /\ UNCHANGED symptomVars

DeleteSignature ==
    \E user \in BOOLEAN, method \in Methods, sigid \in 1..MaxBuckets :
        LET r == deleteSignature(user, method, sigid, buckets, entries, autoPk)
        IN  /\ Respond("deleteSignature", method, sigid, r)
            /\ UNCHANGED symptomVars

CreateCrashEntry ==
    \E bucket \in BucketChoices(buckets) :
        /\ autoPk.entry < MaxEntries
        /\ Respond("CrashEntryViewSet.create", "POST", 0,
                   CrashEntryCreate(bucket, buckets, entries, autoPk))
        /\ UNCHANGED symptomVars

UpdateCrashEntry ==
    \E pk \in 1..MaxEntries, bucket \in BucketChoices(buckets) :
        LET r == CrashEntryUpdate(pk, bucket, buckets, entries, autoPk)
        IN  /\ Respond("CrashEntryViewSet.update", "PUT", 0, r)
            /\ UNCHANGED symptomVars

DestroyCrashEntry ==
    \E pk \in 1..MaxEntries :
        LET r == CrashEntryDestroy(pk, buckets, entries, autoPk)
        IN  /\ Respond("CrashEntryViewSet.destroy", "DELETE", 0, r)
            /\ UNCHANGED symptomVars

ServerNext ==
    \/ NewSignature
    \/ EditSignature
    \/ DeleteSignature
    \/ CreateCrashEntry
    \/ UpdateCrashEntry
    \/ DestroyCrashEntry

ServerSpec == ServerInit /\ [][ServerNext]_vars

---------------------------------------------------------------------------
(* Properties *)

\* the matcher a bare string becomes
Lit(s) == [value |-> s, isPCRE |-> FALSE]

\* a call of matches has just returned for these names and this backtrace
MatchedOn(names, bt) ==
    /\ ret.op = "matches"
    /\ symptom.functionNames = names
    /\ crash.backtrace = bt

\* C1: in StackFramesSymptom matching, ? matches exactly one frame: for all frames
\* A, C, X, Y the names [A, ?, C] match the stack [A, X, C] and match neither
\* [A, C] nor [A, X, Y, C], and names that start with ? do not match the empty stack.
C1_QuestionMarkExactlyOne ==
    /\ \A A \in NameStrings, C \in NameStrings, X \in FrameStrings, Y \in FrameStrings :
          LET names == <<Lit(A), Lit(Q1), Lit(C)>>
          IN  /\ MatchedOn(names, <<A, X, C>>) => ret.val = PyTrue
              /\ MatchedOn(names, <<A, C>>) => ret.val = PyFalse
              /\ MatchedOn(names, <<A, X, Y, C>>) => ret.val = PyFalse
    /\ (/\ ret.op = "matches"
        /\ symptom.functionNames # <<>>
        /\ str(Head(symptom.functionNames)) = Q1
        /\ crash.backtrace = <<>>) => ret.val = PyFalse

\* C2: in StackFramesSymptom matching, ??? matches zero or more frames: for all
\* frames A, C, X, Y the names [A, ???, C] match the stacks [A, C], [A, X, C] and
\* [A, X, Y, C], and do not match [A].
C2_TripleMatchesZeroOrMore ==
    \A A \in NameStrings, C \in NameStrings, X \in FrameStrings, Y \in FrameStrings :
        LET names == <<Lit(A), Lit(Q3), Lit(C)>>
        IN  /\ MatchedOn(names, <<A, C>>) => ret.val = PyTrue
            /\ MatchedOn(names, <<A, X, C>>) => ret.val = PyTrue
            /\ MatchedOn(names, <<A, X, Y, C>>) => ret.val = PyTrue
            /\ MatchedOn(names, <<A>>) => ret.val = PyFalse

\* [a, ???, b] was matched against [a, a, a, b]: ??? had to consume two frames
C2_Witness ==
    /\ MatchedOn(<<Lit(<<"a">>), Lit(Q3), Lit(<<"b">>)>>, <<<<"a">>, <<"a">>, <<"a">>, <<"b">>>>)
    /\ ret.val = PyTrue

\* C7: constructing a StackFramesSymptom fails with MissingField when functionNames
\* is absent and with EmptyFrameList when it is an empty array, and the factory
\* never produces a StackFramesSymptom with an empty frame list.
C7_EmptyFrameListRejected ==
    (ret.op = "new" /\ json.type = JStr(TypeStackFrames)) =>
        /\ json.functionNames = JAbsent => ret.err = "MissingField"
        /\ json.functionNames = JArr(<<>>) => ret.err = "EmptyFrameList"
        /\ symptom.kind = "stackFrames" => symptom.functionNames # <<>>

\* C10: a stackFrame symptom accepts functionName as a bare string and as a mapping
\* {value, matchType?}, and construction fails with a type error for any other
\* JSON type.
C10_FunctionNameEncodings ==
    (ret.op = "new" /\ json.type = JStr(TypeStackFrame) /\ json.frameNumber = JAbsent) =>
        /\ json.functionName.t \in {"str", "map"} =>
              ret.err = "" /\ symptom.kind = "stackFrame"
        /\ json.functionName.t \in {"int", "arr"} => ret.err = "BadType"

\* diff has just returned a depth together with a generalized symptom
DiffReturnedSymptom == ret.op = "diff" /\ ret.err = "" /\ ret.depth # None /\ ret.sym # None

\* C3: diff soundness: if diff(c) returns a depth d together with a generalized
\* symptom, that symptom (trailing wildcards trimmed) matches c and d is 1, 2 or 3.
C3_DiffSound ==
    DiffReturnedSymptom =>
        /\ matches(ret.sym[1].functionNames, crash.backtrace).ret = PyTrue
        /\ ret.depth[1] \in {1, 2, 3}

\* diff returned a symptom at depth 2 whose trailing wildcards were trimmed
C3_Witness ==
    /\ DiffReturnedSymptom
    /\ ret.depth = Some(2)
    /\ Len(ret.sym[1].functionNames) < Len(ret.found[1])

\* C6: whenever diff returns a symptom, its functionNames are non-empty and do not
\* end in ? or ???; when the list the search found holds only wildcards, diff
\* returns (None, None).
C6_TrimmedNeverEmpty ==
    ret.op = "diff" =>
        /\ ret.sym # None =>
              /\ ret.sym[1].functionNames # <<>>
              /\ ~IsWildcard(ret.sym[1].functionNames[Len(ret.sym[1].functionNames)])
        /\ (ret.found # None /\ \A i \in 1..Len(ret.found[1]) : ret.found[1][i] \in Wildcards)
              => (ret.depth = None /\ ret.sym = None)

\* the search found a list of two wildcards and diff returned (None, None)
C6_Witness ==
    /\ ret.op = "diff"
    /\ ret.found # None
    /\ Len(ret.found[1]) = 2
    /\ \A i \in 1..Len(ret.found[1]) : ret.found[1][i] \in Wildcards
    /\ ret.depth = None

\* C8: matches and diff never mutate their inputs: across every call the
\* receiver's functionNames and the crash's backtrace stay element for element what
\* they were, and the symptom diff returns is a new object.
C8_InputsNotMutated ==
    [][ret'.op \in {"matches", "diff"} =>
          /\ symptom'.functionNames = symptom.functionNames
          /\ crash'.backtrace = crash.backtrace
          /\ (ret'.op = "diff" /\ ret'.sym # None) =>
                (ret'.sym[1].oid # symptom.oid /\ ret'.sym[1].oid # symptom'.oid)]_vars

\* diff returned from inside the recursive search (depth 3) with a new symptom
C8_Witness ==
    /\ DiffReturnedSymptom
    /\ ret.depth = Some(3)
    /\ ret.sym[1].oid # symptom.oid

\* C9: evaluation is total: for every backtrace, the empty one included, and every
\* names list, matches returns True or False (no path of _match falls off its
\* end) and diff returns a pair, (0, None), (None, None) or (d, symptom), without
\* an IndexError or any other exception in the search.
C9_EvaluationTotal ==
    /\ ret.op = "matches" => ret.val \in {PyTrue, PyFalse}
    /\ ret.op = "diff" =>
          /\ ret.err = ""
          /\ \/ ret.depth = Some(0) /\ ret.sym = None
             \/ ret.depth = None /\ ret.sym = None
             \/ ret.depth # None /\ ret.depth[1] >= 1 /\ ret.sym # None

\* diff ran its search on the empty backtrace and returned (None, None)
C9_Witness ==
    /\ ret.op = "diff"
    /\ crash.backtrace = <<>>
    /\ ret.err = ""
    /\ ret.found # None
    /\ ret.depth = None

\* the lists one wildcard edit away from names: ? inserted at any position, the end
\* included, or a name that is no wildcard replaced by ?
WildcardEdits(names) ==
    {Insert(names, i, Lit(Q1)) : i \in 0..Len(names)}
    \cup {Store(names, i, Lit(Q1)) : i \in {j \in 0..(Len(names) - 1) : ~IsWildcard(names[j + 1])}}

\* the lists at most k wildcard edits away from names
RECURSIVE EditsUpTo(_, _)
EditsUpTo(names, k) ==
    IF k = 0 THEN {names}
    ELSE LET fewer == EditsUpTo(names, k - 1)
         IN  fewer \cup UNION {WildcardEdits(q) : q \in fewer}

\* C4: diff minimality: when diff returns depth d, no list obtained from the
\* symptom's functionNames by fewer than d wildcard edits (? inserted at any
\* position, or a non-wildcard name replaced by ?) matches the backtrace: the
\* position-ordered search misses no smaller edit set.
C4_DiffMinimal ==
    (ret.op = "diff" /\ ret.err = "" /\ ret.depth # None /\ ret.depth[1] >= 1) =>
        \A q \in EditsUpTo(symptom.functionNames, ret.depth[1] - 1) :
            matches(q, crash.backtrace).ret # PyTrue

\* diff returned depth 2 for a list with two wildcards inserted
C4_Witness ==
    /\ ret.op = "diff"
    /\ ret.depth = Some(2)
    /\ ret.found # None
    /\ Len(ret.found[1]) = Len(symptom.functionNames) + 2

\* C5: the symptom diff returns is a generalization of the receiver: every
\* backtrace the receiver matches is matched by the returned symptom too.
C5_DiffGeneralizes ==
    DiffReturnedSymptom =>
        \A bt \in Backtraces :
            matches(symptom.functionNames, bt).ret = PyTrue
                => matches(ret.sym[1].functionNames, bt).ret = PyTrue

\* diff inserted a wildcard, and the receiver matches a backtrace of as many frames
\* as it has names, which the returned symptom matches with the wildcard skipped
C5_Witness ==
    /\ DiffReturnedSymptom
    /\ ret.depth = Some(1)
    /\ Len(ret.found[1]) = Len(symptom.functionNames) + 1
    /\ \E bt \in Backtraces :
          /\ Len(bt) = Len(symptom.functionNames)
          /\ \A i \in 1..Len(bt) : ~IsWildcard(symptom.functionNames[i])
          /\ matches(symptom.functionNames, bt).ret = PyTrue
          /\ matches(ret.sym[1].functionNames, bt).ret = PyTrue

\* the lists exactly k wildcard edits away from names in the order the claim gives:
\* positions ascending from idx, at each position ? inserted before the element is
\* replaced, no replacement of an element that is a wildcard, each deeper edit at
\* the position of the previous one or after it
RECURSIVE SearchOrder(_, _, _, _)
SearchOrder(names, idx, stop, k) ==
    IF idx >= stop THEN <<>>
    ELSE LET ins == Insert(names, idx, Lit(Q1))
             rep == Store(names, idx, Lit(Q1))
         IN  (IF k = 1 THEN <<ins>> ELSE SearchOrder(ins, idx, Len(ins), k - 1))
             \o (IF IsWildcard(names[idx + 1]) THEN <<>>
                 ELSE IF k = 1 THEN <<rep>>
                 ELSE SearchOrder(rep, idx, Len(rep), k - 1))
             \o SearchOrder(names, idx + 1, stop, k)

\* the positions of the candidates of k edits that match the backtrace
MatchingAt(names, bt, k) ==
    LET c == SearchOrder(names, 0, Len(names), k)
    IN  {i \in 1..Len(c) : matches(c[i], bt).ret = PyTrue}

\* the textual form of a names list
Reprs(names) == [i \in 1..Len(names) |-> repr(names[i])]

\* C11: search order and tie-breaking: among all edit sequences of the smallest
\* depth that make the names match, diff takes the first in search order
\* (ascending position, insertion before replacement, no replacement of a
\* wildcard); a later candidate of equal depth never overrides an earlier one.
C11_FirstInSearchOrder ==
    (ret.op = "diff" /\ ret.err = "" /\ ret.found # None) =>
        \E k \in FirstDepth..(StopDepth - 1) :
            /\ \A j \in FirstDepth..(k - 1) :
                  MatchingAt(symptom.functionNames, crash.backtrace, j) = {}
            /\ LET c == SearchOrder(symptom.functionNames, 0, Len(symptom.functionNames), k)
                   hits == MatchingAt(symptom.functionNames, crash.backtrace, k)
               IN  /\ hits # {}
                   /\ ret.found[1] = Reprs(c[CHOOSE i \in hits : \A j \in hits : i <= j])
                   /\ ret.depth # None => ret.depth[1] = k

\* diff returned at depth 2 although a later candidate of depth 2, a different
\* list, matches too
C11_Witness ==
    /\ DiffReturnedSymptom
    /\ ret.depth = Some(2)
    /\ LET c == SearchOrder(symptom.functionNames, 0, Len(symptom.functionNames), 2)
       IN  \E i \in MatchingAt(symptom.functionNames, crash.backtrace, 2) :
               Reprs(c[i]) # ret.found[1]

\* the last request was a POST to deleteSignature that deleted bucket B
DeletedBucket(B) ==
    /\ ret'.op = "deleteSignature"
    /\ ret'.method = "POST"
    /\ ret'.sigid = B
    /\ ret'.status = "redirect"

\* C12: deleting a signature never deletes crash entries: from any state a sequence
\* of requests leads to, a POST to deleteSignature that deletes bucket B leaves B
\* gone, every crash entry that referred to B in place with its bucket None, and
\* the other crash entries and buckets unchanged; a POST that is turned away
\* (login, 404) changes nothing, and a GET to deleteSignature changes neither
\* buckets nor crash entries.
C12_DeleteKeepsCrashEntries ==
    [][/\ \A B \in 1..MaxBuckets :
             DeletedBucket(B) =>
                 /\ B \in DOMAIN buckets
                 /\ buckets' = Restrict(buckets, DOMAIN buckets \ {B})
                 /\ DOMAIN entries' = DOMAIN entries
                 /\ \A e \in DOMAIN entries :
                       entries'[e].bucket = IF entries[e].bucket = Some(B) THEN None
                                            ELSE entries[e].bucket
       /\ (ret'.op = "deleteSignature" /\ ret'.method = "POST"
           /\ ret'.status # "redirect") => UNCHANGED dbVars
       /\ (ret'.op = "deleteSignature" /\ ret'.method = "GET") =>
             (buckets' = buckets /\ entries' = entries)]_vars

\* a POST to deleteSignature deleted a bucket that a crash entry referred to, while
\* another crash entry refers to another bucket
C12_Witness ==
    /\ ret.op = "deleteSignature"
    /\ ret.method = "POST"
    /\ ret.status = "redirect"
    /\ ret.updated >= 1
    /\ \E e \in DOMAIN entries : entries[e].bucket = None
    /\ \E e \in DOMAIN entries : entries[e].bucket # None

============================================================================
